---- MODULE Spec2Model ----
(***************************************************************************)
(* State-machine model of lib/digital-ocean-provisioner.js                 *)
(* (DigitalOceanProvisioner): provision / _provision, the configuration    *)
(* steps (copyFolder, executeScripts) and the deploy of one script         *)
(* (executeInstanceScript: _copyInstanceScript, then                       *)
(* _executeExistingInstanceScript).                                        *)
(*                                                                         *)
(* Every callback of the program is one action.  A callback that calls     *)
(* other functions synchronously is the composition of the operators that  *)
(* model them: each operator maps a state record s to the state after the  *)
(* call, so that a handler reads like its JavaScript.  Requests in flight  *)
(* (API calls, shell.exec children, timers) are counters or stages; the    *)
(* content of a response is chosen when the response is processed.         *)
(*                                                                         *)
(* async.parallel / async.series / async.waterfall are the library the     *)
(* code calls (the async 0.x line the code was written against):           *)
(*   - waterfall: a task's callback with an error calls the final callback *)
(*     and replaces it by a no-op; without error it calls the next task    *)
(*     (the last task is handed the final callback itself);                *)
(*   - series: a task's callback with an error calls the final callback    *)
(*     and replaces it by a no-op; without error it adds one to            *)
(*     `completed` and either calls the final callback or the next task;   *)
(*   - parallel: a task's callback stores the task's value at the task's   *)
(*     index, throws "Callback was already called." on a second call, and  *)
(*     otherwise behaves like series' counting without starting tasks.     *)
(* An exception thrown inside a callback is uncaught: the process dies.    *)
(***************************************************************************)
EXTENDS Integers, Sequences, FiniteSets, TLC

\* ---- bounds of the model
MaxBatch == 2       \* requests in one call of provision
MaxFolders == 2     \* options.folders.length
MaxScripts == 1     \* options.scripts.length
MaxSeq == 2         \* scripts.length in a direct call of executeScripts
MaxPolls == 2       \* eventGet calls one interval issues
MaxExecs == 1       \* remote executions of one deploy awaiting their exit at a time
MaxDroplets == 3    \* droplets the account holds (their ids: 1..MaxDroplets)
MaxSub == 1         \* instants told apart within one second of the clock

\* ---- constants of the program
launchTimeout == 600    \* _getDropletLaunchTimeout
maxRetries == 10        \* kopy: attempts > 10

Max(a, b) == IF a >= b THEN a ELSE b

Inst == 1..MaxBatch
Scr == 1..Max(MaxScripts, MaxSeq)

\* readings of moment().unix() relative to the call, around the launch timeout
ClockPoints == {launchTimeout - 1, launchTimeout, launchTimeout + 1}

NoErr == "null"
LifecycleErrors == {"PollError", "CreationTimeout", "PortTimeout"}

VARIABLES
    mode,         \* "idle" | "provision" | "scripts" | "deploy": the public call made
    batch,        \* instances.length in provision, in executeScripts
    folders,      \* options.folders.length
    scripts,      \* options.scripts.length, scripts.length
    now,          \* moment().unix(), relative
    tick,         \* the instant within the second `now`
    refs,         \* the scripts given to the call (script references)
    crashed,      \* an exception escaped a callback
    crashedBy,    \* the request whose callback threw (0: none)
    start,        \* _provision: start
    create,       \* dropletNew: "idle" | "pending" | "ok" | "failed"
    interval,     \* _provision: the setInterval handle is armed
    polls,        \* eventGet calls awaiting their response
    issued,       \* eventGet calls issued so far
    portWaits,    \* waitUntilUsedOnHost promises pending
    settles,      \* 10 s setTimeout pending
    called,       \* _provision: called
    log,          \* per request: the lifecycle events, each at its first occurrence
    notDoneAt,    \* per request: the tsDiff of each not-done response handled before cb fired
    outcome,      \* per request: what finalCb was given ("none" before)
    finalCbCalls, \* per request: calls of finalCb
    par,          \* the public call's async.parallel: results, length, completed, live, once
    final,        \* the caller's final_cb: calls, err, results
    fold,         \* per request: the folder series
    es,           \* per request: executeScripts
    dep,          \* per request and script: the deploy
    dx            \* dropletDestroyExcept: the call, its kill tasks, its caller's callback

vars == << mode, batch, folders, scripts, now, tick, refs, crashed, crashedBy, start,
           create, interval, polls, issued, portWaits, settles, called, log, notDoneAt,
           outcome, finalCbCalls, par, final, fold, es, dep, dx >>

\* the state as one record, for the operators that model function calls
Cur ==
    [ mode |-> mode, batch |-> batch, folders |-> folders, scripts |-> scripts,
      now |-> now, tick |-> tick, refs |-> refs, crashed |-> crashed, crashedBy |-> crashedBy, start |-> start,
      create |-> create, interval |-> interval, polls |-> polls, issued |-> issued,
      portWaits |-> portWaits, settles |-> settles, called |-> called, log |-> log,
      notDoneAt |-> notDoneAt, outcome |-> outcome, finalCbCalls |-> finalCbCalls, par |-> par,
      final |-> final, fold |-> fold, es |-> es, dep |-> dep ]

Apply(s) ==
    /\ mode' = s.mode /\ batch' = s.batch /\ folders' = s.folders
    /\ scripts' = s.scripts /\ now' = s.now /\ crashed' = s.crashed
    /\ crashedBy' = s.crashedBy /\ start' = s.start /\ create' = s.create
    /\ interval' = s.interval /\ polls' = s.polls /\ issued' = s.issued
    /\ portWaits' = s.portWaits /\ settles' = s.settles /\ called' = s.called
    /\ log' = s.log /\ notDoneAt' = s.notDoneAt /\ outcome' = s.outcome /\ finalCbCalls' = s.finalCbCalls
    /\ par' = s.par /\ final' = s.final /\ fold' = s.fold /\ es' = s.es
    /\ dep' = s.dep /\ tick' = s.tick /\ refs' = s.refs /\ dx' = dx

\* ---- initial values
NoDeploy ==
    [ stage |-> "idle",      \* "idle" | "get" | "copy" | "wait" | "end"
      attempts |-> 0,        \* _copyInstanceScript: attempts
      startedAt |-> << >>,   \* the instant of a direct call: <<second, instant within it>>
      source |-> << >>,      \* the local path copy_cmd transfers
      target |-> << >>,      \* target_path: <<basename, timestamp>>
      firstCopy |-> "none",  \* exit of the first copy attempt: "ok" | "fail"
      copyOks |-> 0,         \* copy attempts that returned 0
      copyFails |-> 0,       \* copy attempts that returned non-zero
      execs |-> 0,           \* remote executions awaiting their exit
      execStarts |-> 0,      \* remote executions started
      execPaths |-> {},      \* script_path of the executions started
      execFails |-> 0,       \* executions that exited non-zero
      wfLive |-> TRUE,       \* waterfall: the final callback is not yet a no-op
      cbCalls |-> 0,         \* calls of executeInstanceScript's cb
      cbErrs |-> {} ]        \* the errors it was given (NoErr: a success)

NoSeries ==
    [ stage |-> "idle",      \* "idle" | "getAll" | "series"
      completed |-> 0,       \* async.series: completed
      live |-> TRUE,         \* async.series: the final callback is not yet a no-op
      once |-> FALSE,        \* async.parallel (one task): the task's callback was called
      started |-> 0 ]        \* deploys started by the series

NoFold ==
    [ stage |-> "idle",      \* "idle" | "get" | "rsync"
      completed |-> 0,       \* async.series: completed
      started |-> 0 ]        \* copyFolder calls made

NoDestroy ==
    [ stage |-> "idle",      \* "idle" | "list" | "kill" | "end"
      rawIds |-> << >>,      \* ids as the caller gave them
      ids |-> << >>,         \* ids after the parseInt loop
      rawList |-> << >>,     \* the droplets' ids as dropletGetAll returned them
      bad_ids |-> << >>,     \* bad_ids
      destroyCalls |-> << >>,\* the ids api.dropletDestroy was called with
      pending |-> {},        \* kill tasks awaiting their response (indices)
      oks |-> {},            \* kill tasks that succeeded: the droplet is removed
      fails |-> << >>,       \* kill tasks that failed, in the order of failure
      lateOks |-> 0,         \* kill tasks that succeeded after the caller was called
      completed |-> 0,       \* async.parallel: completed
      live |-> TRUE,         \* async.parallel: the final callback is not yet a no-op
      calls |-> << >> ]      \* the calls of the caller's cb: first argument, second argument

Init ==
    /\ dx = NoDestroy
    /\ mode = "idle" /\ batch = 0 /\ folders = 0 /\ scripts = 0
    /\ now = 0 /\ tick = 0 /\ refs = [k \in Scr |-> << >>]
    /\ crashed = FALSE /\ crashedBy = 0
    /\ start = [i \in Inst |-> 0]
    /\ create = [i \in Inst |-> "idle"]
    /\ interval = [i \in Inst |-> FALSE]
    /\ polls = [i \in Inst |-> 0]
    /\ issued = [i \in Inst |-> 0]
    /\ portWaits = [i \in Inst |-> 0]
    /\ settles = [i \in Inst |-> 0]
    /\ called = [i \in Inst |-> FALSE]
    /\ log = [i \in Inst |-> << >>]
    /\ notDoneAt = [i \in Inst |-> {}]
    /\ outcome = [i \in Inst |-> "none"]
    /\ finalCbCalls = [i \in Inst |-> 0]
    /\ par = [ results |-> [i \in Inst |-> "hole"], len |-> 0, completed |-> 0,
               live |-> TRUE, once |-> [i \in Inst |-> FALSE] ]
    /\ final = [ calls |-> 0, err |-> NoErr, results |-> << >> ]
    /\ fold = [i \in Inst |-> NoFold]
    /\ es = [i \in Inst |-> NoSeries]
    /\ dep = [i \in Inst |-> [k \in Scr |-> NoDeploy]]

\* ---- helpers
Logged(sq, e) == \E n \in 1..Len(sq) : sq[n] = e

InLog(s, i, e) == Logged(s.log[i], e)

\* record a lifecycle event of request i at its first occurrence
Note(s, i, e) == IF InLog(s, i, e) THEN s ELSE [s EXCEPT !.log[i] = Append(@, e)]

\* an exception leaves a callback of request i: the process dies
throw(s, i) == [s EXCEPT !.crashed = TRUE, !.crashedBy = i]

\* ---- script references and paths: sequences of characters

\* path.sep
sep == "/"

\* this._options.scripts_path
scripts_path == << ".", sep, "s" >>

\* the script references a call is made with: a bare name, a relative and an
\* absolute path
ScriptRefs == { << "a" >>, << "d", sep, "a" >>, << sep, "b" >> }

\* the scripts of a provision or executeScripts call: sc bare names (which
\* names has no effect on the steps of either)
ScriptList(sc) == [k \in Scr |-> IF k <= sc THEN << "a" >> ELSE << >>]

\* script.indexOf(path.sep) >= 0
HasSep(script) == \E n \in 1..Len(script) : script[n] = sep

\* path.basename(p): what follows the last separator, trailing separators
\* being dropped first
RECURSIVE basename(_)
basename(p) ==
    IF p = << >> THEN p
    ELSE IF p[Len(p)] = sep THEN basename(SubSeq(p, 1, Len(p) - 1))
    ELSE IF HasSep(p)
         THEN LET last == CHOOSE n \in 1..Len(p) :
                              p[n] = sep /\ \A m \in (n + 1)..Len(p) : p[m] # sep
              IN  SubSeq(p, last + 1, Len(p))
         ELSE p

\* (variant: the scripts directory is put before every reference)
_getScriptPath_AlwaysJoins(script) == scripts_path \o << "/" >> \o script

\* _getScriptPath(script)
_getScriptPath(script) ==
    IF HasSep(script) THEN script ELSE scripts_path \o << "/" >> \o script

\* ---- provision: the fan-in (async.parallel over one task per request)

\* provision's callback of async.parallel: final_cb(err, provisioned_instances)
final_cb(s, err) ==
    [s EXCEPT !.final = [ calls |-> @.calls + 1, err |-> err,
                          results |-> [j \in 1..s.par.len |-> s.par.results[j]] ]]

\* (variant: async.parallel reports every error, not only the first)
finalCb_ReportsEveryError(s, i, err) ==
    LET v == IF err = NoErr THEN "instance" ELSE "undefined"
        s1 == [s EXCEPT !.outcome[i] = IF err = NoErr THEN "ready" ELSE err,
                        !.finalCbCalls[i] = @ + 1,
                        !.par.results[i] = v,
                        !.par.len = Max(@, i)]
        s2 == [Note(s1, i, IF err = NoErr THEN "ready" ELSE err)
                  EXCEPT !.par.once[i] = TRUE]
        s3 == [s2 EXCEPT !.par.completed = @ + 1]
    IN  IF s.par.once[i] THEN throw(s1, i)
        ELSE IF err # NoErr
             THEN [final_cb(s2, err) EXCEPT !.par.live = FALSE]
             ELSE IF s3.par.completed >= s3.batch /\ s3.par.live
                  THEN final_cb(s3, NoErr)
                  ELSE s3

\* _provision's finalCb for request i: the callback async.parallel gave the
\* task.  finalCb(err) stores undefined at the request's index, finalCb(null,
\* instance) the instance; then the first error, or the last completion, calls
\* final_cb.
finalCb(s, i, err) ==
    LET v == IF err = NoErr THEN "instance" ELSE "undefined"
        s1 == [s EXCEPT !.outcome[i] = IF err = NoErr THEN "ready" ELSE err,
                        !.finalCbCalls[i] = @ + 1,
                        !.par.results[i] = v,
                        !.par.len = Max(@, i)]
        s2 == [Note(s1, i, IF err = NoErr THEN "ready" ELSE err)
                  EXCEPT !.par.once[i] = TRUE]
        s3 == [s2 EXCEPT !.par.completed = @ + 1]
    IN  IF s.par.once[i] THEN throw(s1, i)
        ELSE IF err # NoErr
             THEN IF s2.par.live
                  THEN [final_cb(s2, err) EXCEPT !.par.live = FALSE]
                  ELSE s2
             ELSE IF s3.par.completed >= s3.batch /\ s3.par.live
                  THEN final_cb(s3, NoErr)
                  ELSE s3

\* ---- configuration of a ready instance

\* executeInstanceScript(instance_id, script, cb): dropletGet is issued
executeInstanceScript(s, i, k) ==
    [s EXCEPT !.dep[i][k] = [NoDeploy EXCEPT !.stage = "get"],
              !.es[i].started = @ + 1]

\* executeScripts(instance.id, options.scripts, ...): dropletGetAll is issued
executeScripts(s, i) ==
    [Note(s, i, "scripts") EXCEPT !.es[i] = [NoSeries EXCEPT !.stage = "getAll"]]

\* runScripts in _provision's cb
runScripts(s, i) ==
    IF s.scripts > 0 THEN executeScripts(s, i) ELSE finalCb(s, i, NoErr)

\* copyFolder(instance.id, folder.source, folder.destination, cb): dropletGet is issued
copyFolder(s, i) ==
    [Note(s, i, "sync") EXCEPT !.fold[i].stage = "get", !.fold[i].started = @ + 1]

\* _provision's cb(err, instance)
cb(s, i, err) ==
    IF s.called[i] THEN s
    ELSE LET s1 == [s EXCEPT !.called[i] = TRUE, !.interval[i] = FALSE]
         IN  IF err # NoErr THEN finalCb(s1, i, err)
             ELSE IF s1.folders > 0 THEN copyFolder(s1, i)
             ELSE runScripts(s1, i)

\* ---- the lifecycle of one instance: actions

\* provision(options, final_cb): every request's _provision runs up to its
\* dropletNew call
provision(n, f, sc) ==
    /\ mode = "idle"
    /\ mode' = "provision" /\ batch' = n /\ folders' = f /\ scripts' = sc
    /\ refs' = ScriptList(sc)
    /\ start' = [i \in Inst |-> IF i <= n THEN now ELSE start[i]]
    /\ create' = [i \in Inst |-> IF i <= n THEN "pending" ELSE create[i]]
    /\ UNCHANGED << now, tick, crashed, crashedBy, interval, polls, issued, portWaits,
                    settles, called, log, notDoneAt, outcome, finalCbCalls, par,
                    final, fold, es, dep, dx >>

\* the callback of dropletNew
dropletNewCallback(s, i, err) ==
    IF err # NoErr
    THEN throw([s EXCEPT !.create[i] = "failed"], i)
    ELSE [Note(s, i, "created") EXCEPT !.create[i] = "ok", !.interval[i] = TRUE]

DropletNewReturns(i, err) ==
    /\ ~crashed /\ create[i] = "pending"
    /\ Apply(dropletNewCallback(Cur, i, err))

\* the setInterval callback: one more eventGet, whatever is still outstanding
IntervalTick(i) ==
    /\ ~crashed /\ interval[i] /\ issued[i] < MaxPolls
    /\ polls' = [polls EXCEPT ![i] = @ + 1]
    /\ issued' = [issued EXCEPT ![i] = @ + 1]
    /\ UNCHANGED << mode, batch, folders, scripts, now, tick, refs, crashed, crashedBy,
                    start, create, interval, portWaits, settles, called, log, notDoneAt,
                    outcome, finalCbCalls, par, final, fold, es, dep, dx >>

\* (variant: the comparison is strict)
timedOut_Strict(tsDiff) == tsDiff > launchTimeout

\* tsDiff >= self._getDropletLaunchTimeout()
timedOut(tsDiff) == tsDiff >= launchTimeout

\* the callback of eventGet; status is data.action_status ("error": err is set)
eventGetCallback(s, i, status) ==
    IF status = "error"
    THEN cb([s EXCEPT !.interval[i] = FALSE], i, "PollError")
    ELSE IF status = "done"
    THEN [Note(s, i, "done") EXCEPT !.interval[i] = FALSE, !.portWaits[i] = @ + 1]
    ELSE LET tsDiff == s.now - s.start[i]
             s1 == IF s.called[i] THEN s
                   ELSE [s EXCEPT !.notDoneAt[i] = @ \cup {tsDiff}]
         IN  IF timedOut(tsDiff)
             THEN cb([s1 EXCEPT !.interval[i] = FALSE], i, "CreationTimeout")
             ELSE s1

EventGetReturns(i, status) ==
    /\ ~crashed /\ polls[i] > 0
    /\ Apply(eventGetCallback([Cur EXCEPT !.polls[i] = @ - 1], i, status))

\* waitUntilUsedOnHost resolved: the 10 s settle timer is set
portResolved(s, i) ==
    [Note(s, i, "port") EXCEPT !.portWaits[i] = @ - 1, !.settles[i] = @ + 1]

\* (variant: a rejected port wait goes on as if the port were reachable)
portRejected_GoesOn(s, i) ==
    cb([Note(s, i, "portTimeout") EXCEPT !.portWaits[i] = @ - 1], i, NoErr)

\* waitUntilUsedOnHost rejected (240 s elapsed)
portRejected(s, i) ==
    cb([Note(s, i, "portTimeout") EXCEPT !.portWaits[i] = @ - 1], i, "PortTimeout")

PortWaitReturns(i, ok) ==
    /\ ~crashed /\ portWaits[i] > 0
    /\ Apply(IF ok THEN portResolved(Cur, i) ELSE portRejected(Cur, i))

\* the 10 s timer fires: cb(null, droplet)
settleTimer(s, i) ==
    cb([Note(s, i, "settled") EXCEPT !.settles[i] = @ - 1], i, NoErr)

SettleTimerFires(i) ==
    /\ ~crashed /\ settles[i] > 0
    /\ Apply(settleTimer(Cur, i))

\* moment().unix() is read by the eventGet callback (tsDiff) and by
\* _copyInstanceScript (target_path), which the dropletGet callback calls:
\* a callback of request i that reads the clock is due
ReadsClock(i) ==
    \/ polls[i] > 0
    \/ \E k \in Scr : dep[i][k].stage = "get"

\* the clock moves on; it is followed only while a callback that reads it is due
Advance(t) ==
    /\ ~crashed /\ t > now /\ \E i \in Inst : ReadsClock(i)
    /\ now' = t /\ tick' = 0
    /\ UNCHANGED << mode, batch, folders, scripts, refs, crashed, crashedBy, start, create,
                    interval, polls, issued, portWaits, settles, called, log,
                    notDoneAt, outcome, finalCbCalls, par, final, fold, es, dep, dx >>

\* ---- configuration: the folder series

\* (variant: a failed folder task is skipped and the scripts are run)
folderTaskCb_SkipsToScripts(s, i, err) ==
    IF err # NoErr
    THEN runScripts([s EXCEPT !.fold[i].stage = "idle"], i)
    ELSE LET s1 == [s EXCEPT !.fold[i].stage = "idle", !.fold[i].completed = @ + 1]
         IN  IF s1.fold[i].completed >= s1.folders
             THEN runScripts(s1, i)
             ELSE copyFolder(s1, i)

\* async.series over folderSeries: the callback of one copyFolder task
folderTaskCb(s, i, err) ==
    IF err # NoErr
    THEN finalCb([s EXCEPT !.fold[i].stage = "idle"], i, err)
    ELSE LET s1 == [s EXCEPT !.fold[i].stage = "idle", !.fold[i].completed = @ + 1]
         IN  IF s1.fold[i].completed >= s1.folders
             THEN runScripts(s1, i)
             ELSE copyFolder(s1, i)

\* copyFolder: the callback of dropletGet
copyFolderGetCallback(s, i, err) ==
    IF err # NoErr THEN folderTaskCb(s, i, "GetError")
    ELSE [s EXCEPT !.fold[i].stage = "rsync"]

CopyFolderGetReturns(i, err) ==
    /\ ~crashed /\ fold[i].stage = "get"
    /\ Apply(copyFolderGetCallback(Cur, i, err))

\* copyFolder: the callback of shell.exec(rsync_cmd)
rsyncCallback(s, i, code) ==
    IF code # 0 THEN folderTaskCb(s, i, "SyncError") ELSE folderTaskCb(s, i, NoErr)

RsyncReturns(i, code) ==
    /\ ~crashed /\ fold[i].stage = "rsync"
    /\ Apply(rsyncCallback(Cur, i, code))

\* ---- configuration: executeScripts

\* executeScripts called directly: async.parallel over all_tasks, one task per
\* instance; the first error, or the last completion, calls the caller's
\* final_cb
allTaskCb(s, i, err) ==
    LET s1 == [s EXCEPT !.par.results[i] = IF err = NoErr THEN "results" ELSE "undefined",
                        !.par.len = Max(@, i)]
        s2 == [s1 EXCEPT !.par.completed = @ + 1]
    IN  IF err # NoErr
        THEN IF s1.par.live
             THEN [final_cb(s1, err) EXCEPT !.par.live = FALSE]
             ELSE s1
        ELSE IF s2.par.completed >= s2.batch /\ s2.par.live
             THEN final_cb(s2, NoErr)
             ELSE s2

\* executeScripts: the callback async.parallel gave the task of instance i,
\* called by the callback of the instance's async.series; a second call throws.
\* From _provision (one instance, one task) the first call is final_cb, which
\* is _provision's function(err, result).
scriptsDone(s, i, err) ==
    IF s.es[i].once THEN throw(s, i)
    ELSE LET s1 == [s EXCEPT !.es[i].once = TRUE]
         IN  IF s.mode = "provision" THEN finalCb(s1, i, err) ELSE allTaskCb(s1, i, err)

\* executeScripts: async.series over tasks; the callback of one script's task
scriptTaskCb(s, i, err) ==
    IF err # NoErr
    THEN IF s.es[i].live
         THEN scriptsDone([s EXCEPT !.es[i].live = FALSE], i, err)
         ELSE s
    ELSE LET s1 == [s EXCEPT !.es[i].completed = @ + 1]
         IN  IF s1.es[i].completed >= s1.scripts
             THEN IF s1.es[i].live THEN scriptsDone(s1, i, NoErr) ELSE s1
             ELSE executeInstanceScript(s1, i, s1.es[i].completed + 1)

\* executeScripts: the callback of dropletGetAll
dropletGetAllCallback(s, i, err) ==
    IF err # NoErr THEN throw([s EXCEPT !.es[i].stage = "idle"], i)
    ELSE executeInstanceScript([s EXCEPT !.es[i].stage = "series"], i, 1)

DropletGetAllReturns(i, err) ==
    /\ ~crashed /\ mode = "provision" /\ es[i].stage = "getAll"
    /\ Apply(dropletGetAllCallback(Cur, i, err))

\* executeScripts called directly: every instance's async.series is started,
\* in the order of the instances
RECURSIVE startSeries(_, _)
startSeries(s, i) ==
    IF i > s.batch THEN s
    ELSE startSeries(executeInstanceScript([s EXCEPT !.es[i].stage = "series"], i, 1), i + 1)

\* executeScripts called directly: the callback of its one dropletGetAll
dropletGetAllCallbackAll(s, err) ==
    IF err # NoErr
    THEN throw([s EXCEPT !.es = [i \in Inst |-> [@[i] EXCEPT !.stage = "idle"]]], 0)
    ELSE startSeries(s, 1)

DropletGetAllReturnsAll(err) ==
    /\ ~crashed /\ mode = "scripts" /\ es[1].stage = "getAll"
    /\ Apply(dropletGetAllCallbackAll(Cur, err))

\* a direct call of the public executeScripts(instance_id, scripts, final_cb)
\* for n instances and sc scripts: dropletGetAll is issued
ExecuteScriptsCall(n, sc) ==
    /\ mode = "idle"
    /\ Apply([Cur EXCEPT !.mode = "scripts", !.batch = n, !.scripts = sc,
                         !.refs = ScriptList(sc),
                         !.es = [i \in Inst |-> IF i <= n
                                                THEN [NoSeries EXCEPT !.stage = "getAll"]
                                                ELSE NoSeries]])

\* ---- the deploy of one script: executeInstanceScript

\* executeInstanceScript: the callback of async.waterfall, calling cb
deployCb(s, i, k, err) ==
    LET s1 == [s EXCEPT !.dep[i][k].cbCalls = @ + 1,
                        !.dep[i][k].cbErrs = @ \cup {err}]
    IN  IF s.mode \in {"provision", "scripts"} THEN scriptTaskCb(s1, i, err) ELSE s1

\* _executeExistingInstanceScript(ip_address, script_path, cb): ssh is spawned
_executeExistingInstanceScript(s, i, k, script_path) ==
    [s EXCEPT !.dep[i][k].execs = @ + 1,
              !.dep[i][k].execStarts = @ + 1,
              !.dep[i][k].execPaths = @ \cup {script_path}]

\* async.waterfall: cb2, the callback handed to _copyInstanceScript
cb2(s, i, k, err, target_path) ==
    IF err # NoErr
    THEN IF s.dep[i][k].wfLive
         THEN deployCb([s EXCEPT !.dep[i][k].wfLive = FALSE], i, k, err)
         ELSE s
    ELSE _executeExistingInstanceScript(s, i, k, target_path)

\* kopy(): one more scp is spawned
kopy(s, i, k) ==
    [s EXCEPT !.dep[i][k].attempts = @ + 1, !.dep[i][k].stage = "copy"]

\* _copyInstanceScript(ip_address, script, cb)
_copyInstanceScript(s, i, k) ==
    LET script == s.refs[k]
        base == IF HasSep(script) THEN basename(script) ELSE script
    IN  kopy([s EXCEPT !.dep[i][k].attempts = 0,
                       !.dep[i][k].target = << base, s.now >>,
                       !.dep[i][k].source = _getScriptPath(script)], i, k)

\* (variant: the retry timer is set whatever the exit code)
kopyCallback_AlwaysRetries(s, i, k, code) ==
    LET d == s.dep[i][k]
        s0 == [s EXCEPT !.dep[i][k].firstCopy =
                            IF d.attempts = 1 THEN (IF code = 0 THEN "ok" ELSE "fail") ELSE @,
                        !.dep[i][k].copyOks = IF code = 0 THEN @ + 1 ELSE @,
                        !.dep[i][k].copyFails = IF code # 0 THEN @ + 1 ELSE @]
    IN  IF d.attempts > maxRetries
        THEN cb2([s0 EXCEPT !.dep[i][k].stage = "end"], i, k,
                 IF code # 0 THEN "TransferFailed" ELSE NoErr, d.target)
        ELSE cb2([s0 EXCEPT !.dep[i][k].stage = "wait"], i, k, NoErr, d.target)

\* kopy: the callback of shell.exec(copy_cmd).  A failed attempt within the
\* budget sets the 120 s retry timer and then runs on to the lines after the
\* if block, which call cb(null, {ip_address, target_path}).
kopyCallback(s, i, k, code) ==
    LET d == s.dep[i][k]
        s0 == [s EXCEPT !.dep[i][k].firstCopy =
                            IF d.attempts = 1 THEN (IF code = 0 THEN "ok" ELSE "fail") ELSE @,
                        !.dep[i][k].copyOks = IF code = 0 THEN @ + 1 ELSE @,
                        !.dep[i][k].copyFails = IF code # 0 THEN @ + 1 ELSE @]
    IN  IF code # 0
        THEN IF d.attempts > maxRetries
             THEN cb2([s0 EXCEPT !.dep[i][k].stage = "end"], i, k, "TransferFailed", << >>)
             ELSE cb2([s0 EXCEPT !.dep[i][k].stage = "wait"], i, k, NoErr, d.target)
        ELSE cb2([s0 EXCEPT !.dep[i][k].stage = "end"], i, k, NoErr, d.target)

\* (an scp exits only once fewer than MaxExecs ssh children are still running)
CopyReturns(i, k, code) ==
    /\ ~crashed /\ dep[i][k].stage = "copy" /\ dep[i][k].execs < MaxExecs
    /\ Apply(kopyCallback(Cur, i, k, code))

\* the 120 s retry timer fires
RetryTimerFires(i, k) ==
    /\ ~crashed /\ dep[i][k].stage = "wait"
    /\ Apply(kopy(Cur, i, k))

\* executeInstanceScript: the callback of dropletGet
dropletGetCallback(s, i, k, err) ==
    IF err # NoErr THEN deployCb([s EXCEPT !.dep[i][k].stage = "end"], i, k, "GetError")
    ELSE _copyInstanceScript(s, i, k)

DropletGetReturns(i, k, err) ==
    /\ ~crashed /\ dep[i][k].stage = "get"
    /\ Apply(dropletGetCallback(Cur, i, k, err))

\* _executeExistingInstanceScript: the callback of shell.exec(script_cmd).  On a
\* non-zero code the log call reads `cmd`, which is declared nowhere in scope:
\* a ReferenceError is thrown before cb is reached.
execCallback(s, i, k, code) ==
    IF code # 0 THEN throw([s EXCEPT !.dep[i][k].execFails = @ + 1], i)
    ELSE deployCb(s, i, k, NoErr)

ExecReturns(i, k, code) ==
    /\ ~crashed /\ dep[i][k].execs > 0
    /\ Apply(execCallback([Cur EXCEPT !.dep[i][k].execs = @ - 1], i, k, code))

\* the k-th direct call of the public executeInstanceScript(instance_id,
\* script, cb), all for the same instance
DeployCall(k, script) ==
    /\ ~crashed /\ mode \in {"idle", "deploy"}
    /\ dep[1][k].stage = "idle" /\ \A j \in 1..(k - 1) : dep[1][j].stage # "idle"
    /\ Apply([executeInstanceScript([Cur EXCEPT !.refs[k] = script], 1, k)
                  EXCEPT !.mode = "deploy", !.dep[1][k].startedAt = << now, tick >>])

\* time passes within the second; it is followed while a call that records
\* its instant can still be made
SubSecond ==
    /\ ~crashed /\ tick < MaxSub /\ \E k \in Scr : dep[1][k].stage = "idle"
    /\ Apply([Cur EXCEPT !.tick = @ + 1])

\* ---- dropletDestroyExcept

\* An id is <<"num", n>> (the number n), <<"str", n>> (the decimal string of
\* n) or <<"junk", 0>> (a string that holds no number).
\* parseInt(id, 10): a number or a decimal string gives the integer, anything
\* else NaN
NaN == << "NaN", 0 >>

parseInt(id) == IF id[1] \in {"num", "str"} THEN << "int", id[2] >> ELSE NaN

\* (variant: the search starts at the second element)
indexOf_FromSecond(sq, x) ==
    IF x # NaN /\ \E n \in 2..Len(sq) : sq[n] = x
    THEN (CHOOSE n \in 2..Len(sq) : sq[n] = x /\ \A m \in 2..(n - 1) : sq[m] # x) - 1
    ELSE 0 - 1

\* Array.prototype.indexOf: strict equality, so NaN is never found
indexOf(sq, x) ==
    IF x # NaN /\ \E n \in 1..Len(sq) : sq[n] = x
    THEN (CHOOSE n \in 1..Len(sq) : sq[n] = x /\ \A m \in 1..(n - 1) : sq[m] # x) - 1
    ELSE 0 - 1

\* the members of S in ascending order, each in the representation `kind`
Listed(S, kind) ==
    SelectSeq([n \in 1..MaxDroplets |-> << kind, n >>], LAMBDA id : id[2] \in S)

\* the caller's cb(a, b) is called
callerCb(d, a, b) == [d EXCEPT !.calls = Append(@, [first |-> a, second |-> b])]

\* the callback of async.parallel(kill_tasks, ...): `return cb(err)` or
\* `return cb(result)`, result being the array of the destroy responses
killDone(d, err) ==
    IF err # << "null", 0 >>
    THEN callerCb(d, err, << "undefined", 0 >>)
    ELSE callerCb(d, << "result", Len(d.bad_ids) >>, << "undefined", 0 >>)

\* dropletDestroyExcept(ids, cb): ids is made an array of integers and
\* dropletGetAll is issued
dropletDestroyExcept(d, ids) ==
    [d EXCEPT !.stage = "list", !.rawIds = ids,
              !.ids = [k \in 1..Len(ids) |-> parseInt(ids[k])]]

\* the callback of dropletGetAll: bad_ids, then async.parallel starts every
\* kill task at once (with no task its callback is called at once)
destroyListCallback(d, err, droplets) ==
    IF err # NoErr
    THEN callerCb([d EXCEPT !.stage = "end"], << "ListError", 0 >>, << "undefined", 0 >>)
    ELSE LET parsed == [k \in 1..Len(droplets) |-> parseInt(droplets[k])]
             bad == SelectSeq(parsed, LAMBDA id : indexOf(d.ids, id) < 0)
             d1 == [d EXCEPT !.stage = "kill", !.rawList = droplets, !.bad_ids = bad,
                             !.destroyCalls = bad, !.pending = 1..Len(bad)]
         IN  IF Len(bad) = 0
             THEN killDone([d1 EXCEPT !.live = FALSE], << "null", 0 >>)
             ELSE d1

\* (variant: the first error drops the kill tasks still awaiting a response)
destroyCallback_Cancels(d, n, err) ==
    LET d1 == [d EXCEPT !.pending = @ \ {n}]
    IN  IF err # NoErr
        THEN LET d2 == [d1 EXCEPT !.fails = Append(@, n), !.pending = {}]
             IN  IF d2.live
                 THEN killDone([d2 EXCEPT !.live = FALSE],
                               << "DestroyError", d.bad_ids[n][2] >>)
                 ELSE d2
        ELSE LET d2 == [d1 EXCEPT !.oks = @ \cup {n}, !.completed = @ + 1,
                                  !.lateOks = IF Len(d.calls) > 0 THEN @ + 1 ELSE @]
             IN  IF d2.completed >= Len(d2.bad_ids) /\ d2.live
                 THEN killDone([d2 EXCEPT !.live = FALSE], << "null", 0 >>)
                 ELSE d2

\* the callback of api.dropletDestroy(id, cb) for kill task n, cb being the
\* task callback of async.parallel
destroyCallback(d, n, err) ==
    LET d1 == [d EXCEPT !.pending = @ \ {n}]
    IN  IF err # NoErr
        THEN LET d2 == [d1 EXCEPT !.fails = Append(@, n)]
             IN  IF d2.live
                 THEN killDone([d2 EXCEPT !.live = FALSE],
                               << "DestroyError", d.bad_ids[n][2] >>)
                 ELSE d2
        ELSE LET d2 == [d1 EXCEPT !.oks = @ \cup {n}, !.completed = @ + 1,
                                  !.lateOks = IF Len(d.calls) > 0 THEN @ + 1 ELSE @]
             IN  IF d2.completed >= Len(d2.bad_ids) /\ d2.live
                 THEN killDone([d2 EXCEPT !.live = FALSE], << "null", 0 >>)
                 ELSE d2

\* what dropletDestroyExcept leaves alone
provisionVars ==
    << mode, batch, folders, scripts, now, tick, refs, crashed, crashedBy, start,
       create, interval, polls, issued, portWaits, settles, called, log, notDoneAt,
       outcome, finalCbCalls, par, final, fold, es, dep >>

\* a call of the public dropletDestroyExcept(ids, cb): the ids of K, all
\* numbers or all strings, with or without an entry that holds no number
DestroyExceptCall(K, kind, junk) ==
    /\ mode = "idle" /\ dx.stage = "idle"
    /\ dx' = dropletDestroyExcept(dx, Listed(K, kind) \o
                                      (IF junk THEN << << "junk", 0 >> >> ELSE << >>))
    /\ UNCHANGED provisionVars

DropletListReturns(err, D, kind) ==
    /\ dx.stage = "list"
    /\ dx' = destroyListCallback(dx, err, Listed(D, kind))
    /\ UNCHANGED provisionVars

DestroyReturns(n, err) ==
    /\ dx.stage = "kill" /\ n \in dx.pending
    /\ dx' = destroyCallback(dx, n, err)
    /\ UNCHANGED provisionVars

\* ---- specifications
ExitCodes == {0, 1}
Errs == {NoErr, "error"}

Lifecycle(i) ==
    \/ \E err \in Errs : DropletNewReturns(i, err)
    \/ IntervalTick(i)
    \/ \E status \in {"error", "done", "pending"} : EventGetReturns(i, status)
    \/ \E ok \in BOOLEAN : PortWaitReturns(i, ok)
    \/ SettleTimerFires(i)

Configure(i) ==
    \/ \E err \in Errs : CopyFolderGetReturns(i, err)
    \/ \E code \in ExitCodes : RsyncReturns(i, code)
    \/ \E err \in Errs : DropletGetAllReturns(i, err)

Deploy(i, k) ==
    \/ \E err \in Errs : DropletGetReturns(i, k, err)
    \/ \E code \in ExitCodes : CopyReturns(i, k, code)
    \/ RetryTimerFires(i, k)
    \/ \E code \in ExitCodes : ExecReturns(i, k, code)

Tick == \E t \in ClockPoints : Advance(t)

\* provision of a batch of 1..MaxBatch requests; the clock is read before the
\* launch timeout or at it
Next ==
    \/ \E n \in 1..MaxBatch, f \in 0..MaxFolders, sc \in 0..MaxScripts : provision(n, f, sc)
    \/ \E i \in Inst : Lifecycle(i) \/ Configure(i)
    \/ \E i \in Inst, k \in Scr : Deploy(i, k)
    \/ Advance(launchTimeout)

Spec == Init /\ [][Next]_vars

\* provision of a single request (options is not an array)
NextOne ==
    \/ \E f \in 0..MaxFolders, sc \in 0..MaxScripts : provision(1, f, sc)
    \/ Lifecycle(1) \/ Configure(1)
    \/ \E k \in Scr : Deploy(1, k)
    \/ Tick

SpecOne == Init /\ [][NextOne]_vars

\* one direct deploy: executeInstanceScript
NextDeploy ==
    \/ \E script \in ScriptRefs : DeployCall(1, script)
    \/ Deploy(1, 1)
    \/ Tick

SpecDeploy == Init /\ [][NextDeploy]_vars

\* direct deploys to one instance, one call after the other
NextDeploys ==
    \/ \E k \in Scr, script \in ScriptRefs : DeployCall(k, script)
    \/ \E k \in Scr : Deploy(1, k)
    \/ SubSecond
    \/ Advance(launchTimeout)

SpecDeploys == Init /\ [][NextDeploys]_vars

\* one direct call of executeScripts for 1..MaxBatch instances
NextScripts ==
    \/ \E n \in 1..MaxBatch, sc \in 1..MaxSeq : ExecuteScriptsCall(n, sc)
    \/ \E err \in Errs : DropletGetAllReturnsAll(err)
    \/ \E i \in Inst, k \in Scr : Deploy(i, k)
    \/ Advance(launchTimeout)

SpecScripts == Init /\ [][NextScripts]_vars

\* one call of dropletDestroyExcept
IdKinds == {"num", "str"}

NextDestroy ==
    \/ \E K \in SUBSET (1..MaxDroplets), kind \in IdKinds, junk \in BOOLEAN :
          DestroyExceptCall(K, kind, junk)
    \/ \E D \in SUBSET (1..MaxDroplets), kind \in IdKinds : DropletListReturns(NoErr, D, kind)
    \/ DropletListReturns("error", {}, "num")
    \/ \E n \in 1..MaxDroplets, err \in Errs : DestroyReturns(n, err)

SpecDestroy == Init /\ [][NextDestroy]_vars

\* ---- properties

Before(sq, a, b) == \E n \in 2..Len(sq) : sq[n] = b /\ \E m \in 1..(n - 1) : sq[m] = a

\* C1: in one deploy, remote execution is started only after a copy attempt of
\* that deploy returned exit code 0; after a failed copy attempt, also one that
\* is going to be retried, execution is never started.
C1_ExecOnlyAfterCopySuccess ==
    \A i \in Inst, k \in Scr : dep[i][k].execStarts > 0 => dep[i][k].copyOks > 0

\* C2: when every copy attempt of a deploy fails, the deploy makes exactly 11
\* copy attempts, then reports a transfer error to its caller, and makes no
\* further copy attempt and no execution attempt.
C2_GivesUpAfterElevenCopies ==
    \A i \in Inst, k \in Scr :
        LET d == dep[i][k]
        IN  d.copyOks = 0 =>
              /\ d.attempts <= maxRetries + 1
              /\ d.execStarts = 0
              /\ "TransferFailed" \in d.cbErrs <=> d.copyFails = maxRetries + 1
              /\ "TransferFailed" \in d.cbErrs => d.stage = "end"

\* C3: when the first copy attempt of a deploy succeeds, the deploy makes
\* exactly one copy attempt, schedules no retry, and hands the copied staging
\* path to the execution step.
C3_FirstCopySuccessNoRetry ==
    \A i \in Inst, k \in Scr :
        LET d == dep[i][k]
        IN  d.firstCopy = "ok" =>
              /\ d.attempts = 1 /\ d.copyFails = 0 /\ d.stage = "end"
              /\ d.execStarts = 1 /\ d.execPaths = {d.target}

C3_Witness ==
    \E i \in Inst, k \in Scr :
        /\ dep[i][k].firstCopy = "ok" /\ dep[i][k].execStarts = 1
        /\ dep[i][k].cbCalls = 1

\* C4: provision reports exactly N outcomes for a batch of N requests, in the
\* order of the requests, each a ready instance or a tagged error, also when
\* some request's pipeline fails.
C4_OneOutcomePerRequest ==
    final.calls > 0 =>
        \A j \in 1..batch :
            \/ j <= Len(final.results) /\ final.results[j] = "instance"
            \/ outcome[j] \notin {"none", "ready"} /\ outcome[j] = final.err

\* C5: in a batch, a failure of one request's pipeline never blocks or cancels
\* another request's pipeline: a request whose callback made the process die
\* leaves no other request without its terminal outcome.
C5_FailureLeavesOthersRunning ==
    \A i \in 1..batch, j \in 1..batch :
        (i # j /\ crashedBy = i) => outcome[j] # "none"

\* C6: once a poll response with status "done" has been handled for an
\* instance, no creation timeout is reported for it.
C6_NoTimeoutAfterDone ==
    \A i \in Inst : ~Before(log[i], "done", "CreationTimeout")

\* C7 (as stated): a creation timeout is reported if and only if a not-done
\* response is handled at an elapsed time strictly greater than 600 seconds.
C7_TimeoutIffAfter600 ==
    \A i \in Inst :
        outcome[i] = "CreationTimeout" <=> \E t \in notDoneAt[i] : t > launchTimeout

\* C7 (amended): a creation timeout is reported if and only if a not-done
\* response is handled, before the lifecycle delivered a result, at an elapsed
\* time of 600 seconds or more; one handled below 600 seconds produces none.
C7_TimeoutIffAtOrAfter600 ==
    \A i \in Inst :
        outcome[i] = "CreationTimeout" <=> \E t \in notDoneAt[i] : t >= launchTimeout

C7_Witness ==
    \E i \in Inst :
        /\ launchTimeout \in notDoneAt[i] /\ launchTimeout - 1 \in notDoneAt[i]
        /\ outcome[i] = "CreationTimeout"

\* C8: a provider-side error of the create call is delivered to the caller as
\* a terminal create error: no event poll is started and the process does not
\* die of an uncaught exception.
C8_CreateErrorIsReturned ==
    \A i \in Inst :
        create[i] = "failed" =>
            /\ ~crashed /\ outcome[i] = "CreateError"
            /\ issued[i] = 0 /\ ~interval[i]

\* C9: a non-zero exit of the remote execution is reported to the deploy's
\* caller through the callback as a terminal remote-execution error; no
\* exception is raised instead.
C9_ExecFailureIsReturned ==
    \A i \in Inst, k \in Scr :
        dep[i][k].execFails > 0 =>
            ~crashed /\ "RemoteExecutionFailed" \in dep[i][k].cbErrs

\* C10: an instance is passed to configuration (folder sync, script deploy) or
\* returned as ready only after, in this order, the create call succeeded, a
\* poll observed "done", port 22 was found reachable and the settle delay
\* elapsed; if no port wait finds the port reachable, the lifecycle fails and
\* no configuration step runs.
C10_ConfiguredOnlyWhenSettled ==
    \A i \in Inst :
        /\ \A e \in {"sync", "scripts", "ready"} :
              Logged(log[i], e) =>
                  /\ Before(log[i], "created", "done")
                  /\ Before(log[i], "done", "port")
                  /\ Before(log[i], "port", "settled")
                  /\ Before(log[i], "settled", e)
        /\ (Logged(log[i], "portTimeout") /\ ~Logged(log[i], "port")) =>
              /\ outcome[i] \in LifecycleErrors
              /\ fold[i].started = 0 /\ es[i].stage = "idle"

C10_Witness ==
    \E i \in Inst :
        Logged(log[i], "sync") /\ Logged(log[i], "scripts") /\ outcome[i] = "ready"

\* a copyFolder task of request i called back with an error: it was started,
\* is not running and is not counted as completed
FolderFailed(i) == fold[i].stage = "idle" /\ fold[i].started > fold[i].completed

\* C11: in one instance's configuration the folder syncs run one at a time in
\* the supplied order and all have completed when the first script step
\* starts; after the first failed folder sync no further folder sync and no
\* script step is started, and the failure is the instance's outcome.
C11_FoldersBeforeScripts ==
    \A i \in Inst :
        /\ fold[i].started <= fold[i].completed + 1
        /\ fold[i].started <= folders
        /\ (es[i].stage # "idle" \/ es[i].started > 0) => fold[i].completed = folders
        /\ FolderFailed(i) =>
              /\ es[i].stage = "idle" /\ es[i].started = 0
              /\ ~Logged(log[i], "scripts")
              /\ outcome[i] \in {"GetError", "SyncError"}

C11_Witness ==
    \E i \in Inst :
        /\ FolderFailed(i) /\ fold[i].started < folders /\ scripts > 0
        /\ finalCbCalls[i] = 1

\* C12: for each instance of one executeScripts call the scripts are deployed
\* in the supplied order, script k+1 being started only after the deploy of
\* script k reported success and nothing but success; a failed deploy leaves
\* the later scripts of its instance unstarted; and a failure in one
\* instance's sequence does not stop the sequence of another instance.
C12_ScriptsInOrderPerInstance ==
    \A i \in 1..batch :
        /\ \A k \in 1..(scripts - 1) :
              /\ dep[i][k + 1].stage # "idle" =>
                    dep[i][k].cbErrs = {NoErr} /\ dep[i][k].execs = 0
              /\ dep[i][k].cbErrs \ {NoErr} # {} => dep[i][k + 1].stage = "idle"
        /\ \A j \in 1..batch : (j # i /\ crashedBy = i) => es[j].once

\* the numbers the caller's ids hold, and the numbers of the listed droplets
KeepNums == {dx.rawIds[k][2] : k \in {j \in 1..Len(dx.rawIds) : dx.rawIds[j][1] # "junk"}}

ListNums == {dx.rawList[k][2] : k \in 1..Len(dx.rawList)}

Count(sq, x) == Cardinality({n \in 1..Len(sq) : sq[n] = x})

\* C13: once the listing is processed, api.dropletDestroy has been called
\* exactly once for each listed droplet whose number is not among the numbers
\* of the caller's ids and for nothing else: never for a droplet the caller
\* listed, and not at all when the caller's ids cover the listing.
C13_DestroysExactlyTheUnlisted ==
    dx.stage = "kill" =>
        /\ \A n \in 1..MaxDroplets :
              Count(dx.destroyCalls, << "int", n >>) =
                  IF n \in ListNums \ KeepNums THEN 1 ELSE 0
        /\ Len(dx.destroyCalls) = Cardinality(ListNums \ KeepNums)

C13_Witness ==
    /\ dx.stage = "kill" /\ Len(dx.destroyCalls) = 2
    /\ Len(dx.rawIds) = 2 /\ dx.rawIds[1][1] = "str" /\ dx.rawIds[2][1] = "junk"
    /\ Len(dx.rawList) = MaxDroplets /\ dx.rawList[1][1] = "num"

\* C14: when the listing succeeded and every destroy succeeded (also when
\* there was nothing to destroy) the caller's callback has been called once,
\* with no error value as its first argument and the list of the destroyed
\* ids as its second.
C14_SuccessIsReportedAsSuccess ==
    (dx.stage = "kill" /\ dx.pending = {} /\ dx.fails = << >>) =>
        /\ Len(dx.calls) = 1
        /\ dx.calls[1].first[1] \in {"null", "undefined"}
        /\ dx.calls[1].second = << "ids", Len(dx.bad_ids) >>

\* C15: when a destroy failed, the caller's callback has been called exactly
\* once, with the error of the destroy that failed first; every kill task was
\* issued and none is dropped: each is awaiting its response, has failed, or
\* has succeeded and removed its droplet.
C15_FirstDestroyErrorOnceOthersGoOn ==
    Len(dx.fails) > 0 =>
        /\ Len(dx.calls) = 1
        /\ dx.calls[1].first = << "DestroyError", dx.bad_ids[dx.fails[1]][2] >>
        /\ dx.destroyCalls = dx.bad_ids
        /\ dx.pending \cup dx.oks \cup {dx.fails[k] : k \in 1..Len(dx.fails)}
              = 1..Len(dx.bad_ids)

C15_Witness ==
    /\ Len(dx.fails) > 0 /\ dx.lateOks > 0 /\ dx.pending = {}
    /\ Len(dx.calls) = 1 /\ dx.calls[1].first[1] = "DestroyError"

\* C16: two deploys of the same script to the same instance that were started
\* at different instants were given different staging paths.
C16_StagingPathsNeverRepeat ==
    \A k1 \in Scr, k2 \in Scr :
        ( /\ k1 < k2 /\ refs[k1] = refs[k2]
          /\ dep[1][k1].target # << >> /\ dep[1][k2].target # << >>
          /\ dep[1][k1].startedAt # dep[1][k2].startedAt )
        => dep[1][k1].target # dep[1][k2].target

\* C17: once a deploy has spawned its copy, the local path the copy transfers
\* is <scripts_path>/<script> when the script reference holds no path separator
\* and the reference itself when it holds one.
C17_CopyTransfersResolvedPath ==
    \A i \in Inst, k \in Scr :
        dep[i][k].attempts > 0 =>
            LET script == refs[k]
                bare == \A n \in 1..Len(script) : script[n] # "/"
            IN  /\ bare => dep[i][k].source = scripts_path \o << "/" >> \o script
                /\ ~bare => dep[i][k].source = script

C17_Witness ==
    \E i \in Inst, k \in Scr :
        /\ dep[i][k].copyOks > 0 /\ refs[k] = << "d", "/", "a" >>
        /\ dep[i][k].source = << "d", "/", "a" >>

\* C18: one deploy starts the remote execution of its staged script at most
\* once, however many copy attempts it makes and whatever their exit codes.
C18_ExecutionStartedAtMostOnce ==
    \A i \in Inst, k \in Scr : dep[i][k].execStarts <= 1

\* something request i waits for can still respond or fire
InFlight(i) ==
    \/ create[i] = "pending" \/ interval[i] \/ polls[i] > 0
    \/ portWaits[i] > 0 \/ settles[i] > 0
    \/ fold[i].stage # "idle" \/ es[i].stage = "getAll"
    \/ \E k \in Scr : dep[i][k].stage \in {"get", "copy", "wait"} \/ dep[i][k].execs > 0

\* C19: a call of provision delivers an outcome to the caller's callback: when
\* the run is over (every collaborator call has responded and every timer has
\* fired, or the process has died) final_cb has been called.
C19_ProvisionDeliversAnOutcome ==
    (mode = "provision" /\ (crashed \/ \A i \in 1..batch : ~InFlight(i)))
        => final.calls > 0

\* a step in which the eventGet callback of request i handles a poll failure,
\* a "done" status, or a not-done status at or past the launch timeout
StopsPolling(i) ==
    \/ EventGetReturns(i, "error")
    \/ EventGetReturns(i, "done")
    \/ EventGetReturns(i, "pending") /\ timedOut(now - start[i])

\* C20: a step that handles a poll failure, a "done" status or a timeout
\* leaves the poll timer stopped; once stopped the timer stays stopped and no
\* further eventGet is issued; and a step that handles a poll failure leaves
\* the request with an error as its outcome, which never changes afterwards.
C20_PollTimerStopsAndFailureIsFinal ==
    [][\A i \in Inst :
          /\ StopsPolling(i) => ~interval'[i]
          /\ (create[i] = "ok" /\ ~interval[i]) =>
                (~interval'[i] /\ issued'[i] = issued[i])
          /\ EventGetReturns(i, "error") => outcome'[i] \notin {"none", "ready"}
          /\ outcome[i] \notin {"none", "ready"} => outcome'[i] = outcome[i]]_vars

\* C21: for a call of provision, the caller's final callback is invoked at
\* most once, whatever the interleaving of the requests' pipelines and
\* whatever fails, copy attempts that fail and are retried included.
C21_FinalCallbackAtMostOnce ==
    mode = "provision" => final.calls <= 1

\* two requests, a copy attempt that failed and was retried, a second request
\* that failed, and the caller's callback called
C21_Witness ==
    /\ mode = "provision" /\ batch = 2 /\ final.calls = 1
    /\ \E i \in 1..batch, k \in Scr : dep[i][k].copyFails > 0 /\ dep[i][k].attempts > 1
    /\ \E i \in 1..batch : outcome[i] \notin {"none", "ready"}

\* C22: for one instance's lifecycle the port-22 wait is started at most
\* once, also when several eventGet responses are outstanding and more than
\* one of them reports "done": a step starts a port wait only if no "done"
\* response was handled before it.
C22_PortWaitStartedAtMostOnce ==
    [][\A i \in Inst :
          portWaits'[i] > portWaits[i] => ~Logged(log[i], "done")]_vars

\* C23: once a "done" response has been handled for an instance, a late
\* response to an earlier poll (an error or a not-done status) does not turn
\* the outcome into a failure while port 22 becomes reachable.
C23_LateResponseCannotFailAfterDone ==
    \A i \in Inst :
        (Logged(log[i], "port") /\ ~Logged(log[i], "portTimeout")) =>
            /\ ~Before(log[i], "done", "PollError")
            /\ ~Before(log[i], "done", "CreationTimeout")

====
